---- MODULE Spec2Model ----
(***************************************************************************)
(* Model of song_splitter.py: main, ensure_dependencies and separate_song, *)
(* together with the environment they act on (the argument lists, the      *)
(* importable packages, the search path, the working directory and the     *)
(* child process started by Popen).                                        *)
(*                                                                         *)
(* A string is a sequence of tokens: "/" is the path separator, "." a dot, *)
(* every other token a run of ordinary characters.  S("x") is the string   *)
(* made of the one token "x".                                              *)
(***************************************************************************)
EXTENDS Integers, Sequences, FiniteSets, TLC

\* ------------------------------------------------------------------ bounds
MaxRuns == 2
MaxLines == 2

\* ----------------------------------------------------------------- strings
S(t) == <<t>>

RECURSIVE SplitAcc(_, _, _)
SplitAcc(s, cur, acc) ==
  IF s = <<>> THEN Append(acc, cur)
  ELSE IF Head(s) = "/" THEN SplitAcc(Tail(s), <<>>, Append(acc, cur))
  ELSE SplitAcc(Tail(s), Append(cur, Head(s)), acc)

\* s.split("/")
Split(s) == SplitAcc(s, <<>>, <<>>)

RECURSIVE Join(_)
\* "/".join(parts)
Join(parts) ==
  IF parts = <<>> THEN <<>>
  ELSE IF Len(parts) = 1 THEN parts[1]
  ELSE parts[1] \o <<"/">> \o Join(Tail(parts))

\* pathlib (POSIX flavour): one leading slash is the root, exactly two are
\* kept as "//", three or more collapse to one.
Root(s) ==
  IF Len(s) >= 1 /\ s[1] = "/"
  THEN IF Len(s) >= 2 /\ s[2] = "/" /\ ~(Len(s) >= 3 /\ s[3] = "/")
       THEN <<"/", "/">>
       ELSE <<"/">>
  ELSE <<>>

\* pathlib drops empty components and "." components, keeps "..".
IsKeptPart(c) == c # <<>> /\ c # <<".">>

Parts(s) == SelectSeq(Split(s), IsKeptPart)

\* str(Path(s))
PathStr(s) ==
  IF Root(s) = <<>> /\ Parts(s) = <<>> THEN <<".">>
  ELSE Root(s) \o Join(Parts(s))

\* Path(s).name
PathName(s) ==
  IF Parts(s) = <<>> THEN <<>> ELSE Parts(s)[Len(Parts(s))]

\* ------------------------------------------------------------- environment
Prog == S("song_splitter.py")
Executable == S("python")
OutputDirName == S("separated_stems")

\* what is on disk besides the output directory
ExistingPaths ==
  { S("song.mp3"), <<"d", "/", "song.mp3">>, S("d"), S("."), S("/") }

\* the path strings a caller passes
InputPaths ==
  { S("song.mp3"),
    <<".", "/", "song.mp3">>,
    <<"d", "/", "/", "song.mp3">>,
    S("missing.mp3"),
    <<>> }

ExtraArgs == { S("extra") }

ArgLists ==
  { <<>>, <<Prog>> }
    \cup { <<Prog, p>> : p \in InputPaths }
    \cup { <<Prog, p, e>> : p \in InputPaths, e \in ExtraArgs }

\* sys.argv always carries the program name
SysArgLists == { <<Prog>>, <<Prog, S("song.mp3")>>, <<Prog, S("missing.mp3")>> }

StemsKinds == { "absent", "dir", "file" }

VARIABLES
  argvGiven,    \* FALSE when main is called with argv=None
  argvList,     \* the list passed to main (meaningful when argvGiven)
  sysArgv,      \* sys.argv
  demucs,       \* find_spec("demucs") is not None
  torch,        \* find_spec("torch") is not None
  ffmpeg,       \* shutil.which("ffmpeg") is not None
  stems,        \* what ./separated_stems is: absent, a directory, a file
  contents,     \* entries below ./separated_stems when it is a directory
  pc,           \* position of the run
  songPath,     \* str(song_path)
  status,       \* value returned by main, -1 while none
  exc,          \* exception that left main, "" while none
  calls,        \* argument lists given to check_call / Popen, in order
  out,          \* what the run printed, in order
  trace,        \* the steps the run took, in order
  child,        \* "none", "running", "exited"
  pipe,         \* lines written by the child and not yet read
  pipeClosed,   \* the child's end of the stream is closed
  produced,     \* number of lines the child wrote
  childRc,      \* exit status of the child once child = "exited"
  line,         \* the line held by the loop body
  returncode,   \* process.returncode once wait() has returned
  runs,         \* number of calls of main so far
  atCall,       \* the environment as it was when main was called
  installExit,  \* exit status of the run's last install command, 0 if none
  tryExc        \* exception raised inside the try block, "" while none

envVars == <<demucs, torch, ffmpeg, stems, contents>>
inVars == <<argvGiven, argvList, sysArgv>>
childVars == <<child, pipe, pipeClosed, produced, childRc>>
histVars == <<atCall, installExit, tryExc>>
runVars == <<pc, songPath, status, exc, calls, out, trace, line, returncode,
             histVars>>
vars == <<inVars, envVars, childVars, runVars, runs>>

Msg(k) == [kind |-> k, n |-> 0]
LineMsg(i) == [kind |-> "line", n |-> i]

\* ------------------------------------------------------------ pure helpers
\* faulty variant: only a missing list falls back to sys.argv
EffectiveArgv_NoneOnly(given, list, sys) == IF given THEN list ELSE sys

\* argv = argv or sys.argv
EffectiveArgv(given, list, sys) ==
  IF given /\ list # <<>> THEN list ELSE sys

\* len(argv) < 2
IsUsageError(argv) == Len(argv) < 2

\* Path(argv[1])
SongPathOf(argv) == PathStr(argv[2])

\* faulty variant: the existence check is skipped
PathExists_Always(p) == TRUE

\* song_path.exists()
PathExists(p) == p \in ExistingPaths

PipInstallCmd(package) ==
  <<Executable, S("-m"), S("pip"), S("install"), package>>

TorchInstallCmd ==
  <<Executable, S("-m"), S("pip"), S("install"), S("torch"),
    S("--index-url"), S("https://download.pytorch.org/whl/cpu")>>

\* faulty variant: the output option comes before the model option
SeparationCmd_Swapped(path) ==
  <<Executable, S("-m"), S("demucs"), S("-o"), PathStr(OutputDirName),
    S("-n"), S("htdemucs"), path>>

SeparationCmd(path) ==
  <<Executable, S("-m"), S("demucs"), S("-n"), S("htdemucs"),
    S("-o"), PathStr(OutputDirName), path>>

\* output_dir.mkdir(exist_ok=True): the resulting kind, "raise" when it raises
MkdirResult(kind) ==
  CASE kind = "absent" -> "dir"
    [] kind = "dir" -> "dir"
    [] OTHER -> "raise"

\* faulty variant: the directory is emptied on every run
MkdirContents_Cleared(kind, c) == {}

MkdirContents(kind, c) == IF kind = "absent" THEN {} ELSE c

\* faulty variant: only a death by signal counts as a failure
ReportFor_SignalOnly(rc) == IF rc >= 0 THEN "done" ELSE "error"

\* the report chosen from process.returncode
ReportFor(rc) == IF rc = 0 THEN "done" ELSE "error"

\* -------------------------------------------------------------------- Init
EnvNow ==
  [demucs |-> demucs, torch |-> torch, ffmpeg |-> ffmpeg, stems |-> stems,
   contents |-> contents]

Init ==
  /\ argvGiven = FALSE
  /\ argvList = <<>>
  /\ sysArgv = <<Prog>>
  /\ demucs \in BOOLEAN
  /\ torch \in BOOLEAN
  /\ ffmpeg \in BOOLEAN
  /\ stems \in StemsKinds
  /\ contents \in IF stems = "dir" THEN { {}, {S("old")} } ELSE { {} }
  /\ pc = "idle"
  /\ songPath = <<>>
  /\ status = -1
  /\ exc = ""
  /\ calls = <<>>
  /\ out = <<>>
  /\ trace = <<>>
  /\ child = "none"
  /\ pipe = <<>>
  /\ pipeClosed = FALSE
  /\ produced = 0
  /\ childRc = 0
  /\ line = 0
  /\ returncode = 0
  /\ runs = 0
  /\ atCall = EnvNow
  /\ installExit = 0
  /\ tryExc = ""

RunEnded == pc \in { "idle", "returned", "raised", "exited" }

\* A caller invokes main; the previous run, if any, is over and its child
\* process is gone.
CallMain ==
  /\ RunEnded
  /\ child # "running"
  /\ runs < MaxRuns
  /\ \E g \in BOOLEAN, l \in ArgLists, s \in SysArgLists :
       /\ (~g => l = <<>>)
       /\ argvGiven' = g
       /\ argvList' = l
       /\ sysArgv' = s
  /\ runs' = runs + 1
  /\ pc' = "main"
  /\ songPath' = <<>>
  /\ status' = -1
  /\ exc' = ""
  /\ calls' = <<>>
  /\ out' = <<>>
  /\ trace' = <<>>
  /\ child' = "none"
  /\ pipe' = <<>>
  /\ pipeClosed' = FALSE
  /\ produced' = 0
  /\ childRc' = 0
  /\ line' = 0
  /\ returncode' = 0
  /\ atCall' = EnvNow
  /\ installExit' = 0
  /\ tryExc' = ""
  /\ UNCHANGED envVars

\* ------------------------------------------------------------------- main
MainUsage ==
  /\ pc = "main"
  /\ IsUsageError(EffectiveArgv(argvGiven, argvList, sysArgv))
  /\ out' = Append(out, Msg("usage"))
  /\ status' = 1
  /\ pc' = "returned"
  /\ UNCHANGED <<inVars, envVars, childVars, runs, songPath, exc, calls,
                 trace, line, returncode, histVars>>

MainNotFound ==
  /\ pc = "main"
  /\ ~IsUsageError(EffectiveArgv(argvGiven, argvList, sysArgv))
  /\ LET p == SongPathOf(EffectiveArgv(argvGiven, argvList, sysArgv)) IN
       /\ ~PathExists(p)
       /\ songPath' = p
  /\ out' = Append(out, Msg("not_found"))
  /\ status' = 1
  /\ pc' = "returned"
  /\ UNCHANGED <<inVars, envVars, childVars, runs, exc, calls,
                 trace, line, returncode, histVars>>

MainProceed ==
  /\ pc = "main"
  /\ ~IsUsageError(EffectiveArgv(argvGiven, argvList, sysArgv))
  /\ LET p == SongPathOf(EffectiveArgv(argvGiven, argvList, sysArgv)) IN
       /\ PathExists(p)
       /\ songPath' = p
  /\ pc' = "check_demucs"
  /\ UNCHANGED <<inVars, envVars, childVars, runs, status, exc, calls, out,
                 trace, line, returncode, histVars>>

\* exit statuses of a subprocess; negative when a signal ended it
ExitCodes == { 0, 1, -9 }

\* ----------------------------------------------------- ensure_dependencies
\* faulty variant: the install runs whatever the check said
AfterCheck_AlwaysInstall(installed, install, next) == install

\* if not check_installed(package): install
AfterCheck(installed, install, next) == IF installed THEN next ELSE install

\* faulty variant: the exit status of the install command is not checked
AfterInstall_Unchecked(rc, next) == next

\* check_call returns on exit status 0 and raises CalledProcessError otherwise
AfterInstall(rc, next) == IF rc = 0 THEN next ELSE "raised"

\* faulty variant: a missing decoder is reported but the run goes on
AfterFfmpegCheck_Continue(found) == "mkdir"

\* shutil.which("ffmpeg") is None leads to sys.exit(1)
AfterFfmpegCheck(found) == IF found THEN "mkdir" ELSE "exited"

CheckDemucs ==
  /\ pc = "check_demucs"
  /\ trace' = Append(trace, "check_demucs")
  /\ pc' = AfterCheck(demucs, "install_demucs", "check_torch")
  /\ UNCHANGED <<inVars, envVars, childVars, runs, songPath, status, exc,
                 calls, out, line, returncode, histVars>>

InstallDemucs ==
  /\ pc = "install_demucs"
  /\ trace' = Append(trace, "install_demucs")
  /\ out' = Append(out, Msg("installing_demucs"))
  /\ calls' = Append(calls, PipInstallCmd(S("demucs")))
  /\ \E rc \in ExitCodes :
       /\ installExit' = rc
       /\ pc' = AfterInstall(rc, "check_torch")
       /\ exc' = IF pc' = "raised" THEN "CalledProcessError" ELSE exc
       /\ demucs' = (demucs \/ rc = 0)
  /\ UNCHANGED <<atCall, tryExc>>
  /\ UNCHANGED <<inVars, torch, ffmpeg, stems, contents, childVars, runs,
                 songPath, status, line, returncode>>

CheckTorch ==
  /\ pc = "check_torch"
  /\ trace' = Append(trace, "check_torch")
  /\ pc' = AfterCheck(torch, "install_torch", "check_ffmpeg")
  /\ UNCHANGED <<inVars, envVars, childVars, runs, songPath, status, exc,
                 calls, out, line, returncode, histVars>>

InstallTorch ==
  /\ pc = "install_torch"
  /\ trace' = Append(trace, "install_torch")
  /\ out' = Append(out, Msg("installing_torch"))
  /\ calls' = Append(calls, TorchInstallCmd)
  /\ \E rc \in ExitCodes :
       /\ installExit' = rc
       /\ pc' = AfterInstall(rc, "check_ffmpeg")
       /\ exc' = IF pc' = "raised" THEN "CalledProcessError" ELSE exc
       /\ torch' = (torch \/ rc = 0)
  /\ UNCHANGED <<atCall, tryExc>>
  /\ UNCHANGED <<inVars, demucs, ffmpeg, stems, contents, childVars, runs,
                 songPath, status, line, returncode>>

CheckFfmpeg ==
  /\ pc = "check_ffmpeg"
  /\ trace' = Append(trace, "check_ffmpeg")
  /\ pc' = AfterFfmpegCheck(ffmpeg)
  /\ out' = IF pc' = "exited" THEN Append(out, Msg("ffmpeg_missing")) ELSE out
  /\ exc' = IF pc' = "exited" THEN "SystemExit(1)" ELSE exc
  /\ UNCHANGED <<inVars, envVars, childVars, runs, songPath, status, calls,
                 line, returncode, histVars>>

\* ----------------------------------------------------------- separate_song
\* lines 63-64, before the try block
Mkdir ==
  /\ pc = "mkdir"
  /\ trace' = Append(trace, "mkdir")
  /\ IF MkdirResult(stems) = "raise"
     THEN /\ pc' = "raised"
          /\ exc' = "FileExistsError"
          /\ UNCHANGED <<stems, contents>>
     ELSE /\ pc' = "launch"
          /\ stems' = MkdirResult(stems)
          /\ contents' = MkdirContents(stems, contents)
          /\ exc' = exc
  /\ UNCHANGED <<inVars, demucs, torch, ffmpeg, childVars, runs, songPath,
                 status, calls, out, line, returncode, histVars>>

LaunchOutcomes == { "started", "FileNotFoundError", "PermissionError" }

\* faulty variant: only FileNotFoundError is handled
ExceptClause_OnlyNotFound(e) ==
  IF e = "FileNotFoundError" THEN "except_not_found" ELSE "raised"

\* the except clause that takes an exception raised inside the try block
ExceptClause(e) ==
  IF e = "FileNotFoundError" THEN "except_not_found" ELSE "except_other"

\* lines 66-76: the banner, the command and Popen
Launch ==
  /\ pc = "launch"
  /\ trace' = Append(trace, "launch")
  /\ out' = Append(out, Msg("splitting"))
  /\ calls' = Append(calls, SeparationCmd(songPath))
  /\ \E o \in LaunchOutcomes :
       IF o = "started"
       THEN /\ pc' = "read"
            /\ child' = "running"
            /\ tryExc' = tryExc
       ELSE /\ pc' = ExceptClause(o)
            /\ child' = child
            /\ tryExc' = o
  /\ UNCHANGED <<atCall, installExit>>
  /\ UNCHANGED <<inVars, envVars, pipe, pipeClosed, produced, childRc, runs,
                 songPath, status, exc, line, returncode>>

\* for line in process.stdout: a line is available
ReadLine ==
  /\ pc = "read"
  /\ pipe # <<>>
  /\ line' = Head(pipe)
  /\ pipe' = Tail(pipe)
  /\ pc' = "print"
  /\ UNCHANGED <<inVars, envVars, child, pipeClosed, produced, childRc, runs,
                 songPath, status, exc, calls, out, trace, returncode,
                 histVars>>

\* print(line, end="")
PrintLine ==
  /\ pc = "print"
  /\ out' = Append(out, LineMsg(line))
  /\ pc' = "read"
  /\ UNCHANGED <<inVars, envVars, childVars, runs, songPath, status, exc,
                 calls, trace, line, returncode, histVars>>

\* faulty variant: the loop ends as soon as no line is waiting
EndOfStream_WhenEmpty ==
  /\ pc = "read"
  /\ pipe = <<>>
  /\ pc' = "wait"
  /\ UNCHANGED <<inVars, envVars, childVars, runs, songPath, status, exc,
                 calls, out, trace, line, returncode, histVars>>

\* the loop ends when the stream is at end of file
EndOfStream ==
  /\ pc = "read"
  /\ pipe = <<>>
  /\ pipeClosed
  /\ pc' = "wait"
  /\ UNCHANGED <<inVars, envVars, childVars, runs, songPath, status, exc,
                 calls, out, trace, line, returncode, histVars>>

\* process.wait() returns once the child has exited
Wait ==
  /\ pc = "wait"
  /\ child = "exited"
  /\ returncode' = childRc
  /\ pc' = "report"
  /\ UNCHANGED <<inVars, envVars, childVars, runs, songPath, status, exc,
                 calls, out, trace, line, histVars>>

Report ==
  /\ pc = "report"
  /\ out' = Append(out, Msg(ReportFor(returncode)))
  /\ pc' = "separated"
  /\ UNCHANGED <<inVars, envVars, childVars, runs, songPath, status, exc,
                 calls, trace, line, returncode, histVars>>

ExceptNotFound ==
  /\ pc = "except_not_found"
  /\ out' = Append(out, Msg("launch_failed"))
  /\ pc' = "separated"
  /\ UNCHANGED <<inVars, envVars, childVars, runs, songPath, status, exc,
                 calls, trace, line, returncode, histVars>>

ExceptOther ==
  /\ pc = "except_other"
  /\ out' = Append(out, Msg("unexpected"))
  /\ pc' = "separated"
  /\ UNCHANGED <<inVars, envVars, childVars, runs, songPath, status, exc,
                 calls, trace, line, returncode, histVars>>

\* main, line 105
MainReturn ==
  /\ pc = "separated"
  /\ status' = 0
  /\ pc' = "returned"
  /\ UNCHANGED <<inVars, envVars, childVars, runs, songPath, exc, calls, out,
                 trace, line, returncode, histVars>>

\* ------------------------------------------------------- the child process
ChildWrite ==
  /\ child = "running"
  /\ ~pipeClosed
  /\ produced < MaxLines
  /\ produced' = produced + 1
  /\ pipe' = Append(pipe, produced + 1)
  /\ UNCHANGED <<inVars, envVars, child, pipeClosed, childRc, runVars, runs>>

\* the tool writes its result files below the output directory
ChildSaveStems ==
  /\ child = "running"
  /\ stems = "dir"
  /\ PathName(songPath) \notin contents
  /\ contents' = contents \cup { PathName(songPath) }
  /\ UNCHANGED <<inVars, demucs, torch, ffmpeg, stems, childVars, runVars,
                 runs>>

ChildClose ==
  /\ child = "running"
  /\ ~pipeClosed
  /\ pipeClosed' = TRUE
  /\ UNCHANGED <<inVars, envVars, child, pipe, produced, childRc, runVars,
                 runs>>

\* exiting closes the child's end of the stream
ChildExit ==
  /\ child = "running"
  /\ \E rc \in ExitCodes : childRc' = rc
  /\ child' = "exited"
  /\ pipeClosed' = TRUE
  /\ UNCHANGED <<inVars, envVars, pipe, produced, runVars, runs>>

Child == ChildWrite \/ ChildSaveStems \/ ChildClose \/ ChildExit

Ensure == CheckDemucs \/ InstallDemucs \/ CheckTorch \/ InstallTorch
            \/ CheckFfmpeg

Separate == Mkdir \/ Launch \/ ReadLine \/ PrintLine \/ EndOfStream \/ Wait
              \/ Report \/ ExceptNotFound \/ ExceptOther

Main == MainUsage \/ MainNotFound \/ MainProceed \/ MainReturn

Program == Main \/ Ensure \/ Separate

Next == CallMain \/ Program \/ Child

Spec == Init /\ [][Next]_vars

\* the interpreter keeps executing the program; nothing is assumed of the
\* child process
LiveSpec == Spec /\ WF_vars(Program)

TypeOK ==
  /\ argvGiven \in BOOLEAN
  /\ argvList \in ArgLists
  /\ sysArgv \in SysArgLists
  /\ stems \in StemsKinds
  /\ status \in { -1, 0, 1 }
  /\ child \in { "none", "running", "exited" }
  /\ produced \in 0..MaxLines
  /\ runs \in 0..MaxRuns

\* ================================================================== claims
\* The argument list a call of main runs on: the list passed to it, or the
\* process-wide list when none (or an empty one) was passed.
UsedArgs == IF argvGiven /\ argvList # <<>> THEN argvList ELSE sysArgv

InRun == pc \notin { "idle", "main" }
Ended == pc \in { "returned", "raised", "exited" }

NoPathArgument == Len(UsedArgs) < 2
GivenPath == UsedArgs[2]
PathMissing == ~NoPathArgument /\ PathStr(GivenPath) \notin ExistingPaths
PathOnDisk == ~NoPathArgument /\ PathStr(GivenPath) \in ExistingPaths

DirectoryUntouched == stems = atCall.stems /\ contents = atCall.contents
Printed(k) == \E i \in 1..Len(out) : out[i].kind = k
Took(step) == \E i \in 1..Len(trace) : trace[i] = step

IsLineMsg(m) == m.kind = "line"
Relayed == SelectSeq(out, IsLineMsg)

ExpectedSeparationCmd(path) ==
  << <<"python">>, <<"-m">>, <<"demucs">>, <<"-n">>, <<"htdemucs">>,
     <<"-o">>, <<"separated_stems">>, path >>

IsSeparationCall(c) == Len(c) >= 3 /\ c[3] = <<"demucs">>
IsInstallCall(c) == Len(c) >= 3 /\ c[3] = <<"pip">>

\* C1: a call of main without a path argument, or with a path that does not
\* exist, returns 1; it launches no subprocess, performs no prerequisite
\* check, and leaves the output directory as it was.
C1_NoPathOrMissingReturnsOne ==
  (InRun /\ (NoPathArgument \/ PathMissing)) =>
    /\ pc = "returned"
    /\ status = 1
    /\ calls = <<>>
    /\ trace = <<>>
    /\ child = "none"
    /\ DirectoryUntouched

C1_Witness ==
  /\ pc = "returned" /\ status = 1 /\ PathMissing
  /\ runs = 2 /\ stems = "dir" /\ contents # {}
  /\ ~atCall.demucs

\* C2 as stated: with an existing input path and every prerequisite present,
\* a run launches exactly one subprocess, whose argument list ends with the
\* input path exactly as given.
C2_Original ==
  (Ended /\ PathOnDisk /\ atCall.demucs /\ atCall.torch /\ atCall.ffmpeg) =>
    calls = << ExpectedSeparationCmd(GivenPath) >>

\* C2 amended: with an existing input path, every prerequisite present and
\* the name separated_stems not taken by a non-directory, a run launches
\* exactly one subprocess and no install command; its argument list is
\* [interpreter, -m, demucs, -n, htdemucs, -o, separated_stems, path], where
\* path is the input path in pathlib's normal form (empty and "." components
\* dropped, an empty path written ".").
C2_OneLaunchNormalisedPath ==
  (Ended /\ PathOnDisk /\ atCall.demucs /\ atCall.torch /\ atCall.ffmpeg
     /\ atCall.stems # "file") =>
    calls = << ExpectedSeparationCmd(PathStr(GivenPath)) >>

C2_Witness ==
  /\ pc = "returned" /\ status = 0
  /\ atCall.demucs /\ atCall.torch /\ atCall.ffmpeg
  /\ GivenPath = <<"d", "/", "/", "song.mp3">>
  /\ calls = << ExpectedSeparationCmd(<<"d", "/", "song.mp3">>) >>

\* C3: whatever the exit status of the separation subprocess, main returns
\* 0: after exit status 0 the success message and no failure message is
\* printed, after a non-zero exit status the failure message and no success
\* message; main returns 1 only for the usage error and the missing file.
C3_ExitStatusSwallowed ==
  /\ (Ended /\ Took("launch")) => (pc = "returned" /\ status = 0)
  /\ (Ended /\ child = "exited" /\ childRc = 0) =>
       (status = 0 /\ Printed("done") /\ ~Printed("error"))
  /\ (Ended /\ child = "exited" /\ childRc # 0) =>
       (status = 0 /\ Printed("error") /\ ~Printed("done"))
  /\ (status = 1) => (NoPathArgument \/ PathMissing)
  /\ (pc = "returned" /\ ~NoPathArgument /\ ~PathMissing) => status = 0

C3_Witness ==
  /\ pc = "returned" /\ status = 0
  /\ child = "exited" /\ childRc = -9
  /\ Printed("error")

\* C4: a run on an existing input path with no decoder on the search path
\* ends inside ensure_dependencies with a non-zero process status: main
\* returns nothing, the output directory is not created and the separation
\* subprocess is not launched.
C4_MissingDecoderIsFatal ==
  (InRun /\ PathOnDisk /\ ~ffmpeg) =>
    /\ status = -1
    /\ pc # "returned"
    /\ ~Took("mkdir") /\ ~Took("launch")
    /\ \A i \in 1..Len(calls) : ~IsSeparationCall(calls[i])
    /\ child = "none"
    /\ DirectoryUntouched
    /\ Ended =>
         \/ pc = "exited" /\ exc = "SystemExit(1)"
              /\ trace[Len(trace)] = "check_ffmpeg"
         \/ pc = "raised" /\ exc = "CalledProcessError"

C4_Witness ==
  /\ pc = "exited" /\ exc = "SystemExit(1)" /\ PathOnDisk /\ ~ffmpeg
  /\ atCall.stems = "absent" /\ stems = "absent"
  /\ Printed("ffmpeg_missing")

\* C5 as stated: no exception leaves separate_song, whichever of its steps
\* raised it, the creation of the output directory included.
C5_Original == ~(pc = "raised" /\ Took("mkdir"))

\* C5 amended: an exception raised from the launch of the subprocess to the
\* final report is caught inside separate_song, a diagnostic is printed and
\* main returns 0 (a failure to start, any other exception, and a non-zero
\* exit alike); the one exception that leaves separate_song is the one
\* raised by the creation of the output directory, which comes before the
\* guarded region, and then nothing is launched and main returns nothing.
C5_CaughtOnceLaunched ==
  /\ (pc = "raised" /\ Took("mkdir")) =>
       /\ exc = "FileExistsError"
       /\ atCall.stems = "file"
       /\ ~Took("launch")
       /\ status = -1
       /\ \A i \in 1..Len(calls) : ~IsSeparationCall(calls[i])
  /\ (Ended /\ Took("launch")) =>
       /\ pc = "returned" /\ status = 0 /\ exc = ""
       /\ tryExc = "FileNotFoundError" =>
            (out[Len(out)] = Msg("launch_failed") /\ child = "none")
       /\ (tryExc # "" /\ tryExc # "FileNotFoundError") =>
            (out[Len(out)] = Msg("unexpected") /\ child = "none")
       /\ (child = "exited" /\ childRc # 0) => out[Len(out)] = Msg("error")
  /\ (Took("mkdir") /\ atCall.stems # "file") => pc # "raised"

C5_Witness ==
  /\ pc = "returned" /\ status = 0
  /\ tryExc = "PermissionError"
  /\ out[Len(out)] = Msg("unexpected")

\* C6: when an install command of ensure_dependencies exits non-zero the
\* error leaves ensure_dependencies and main uncaught: main returns nothing,
\* no later prerequisite step runs, the output directory is not created and
\* the separation subprocess is not launched.
C6_InstallFailurePropagates ==
  (InRun /\ installExit # 0) =>
    /\ pc = "raised" /\ exc = "CalledProcessError"
    /\ status = -1
    /\ trace[Len(trace)] \in { "install_demucs", "install_torch" }
    /\ IsInstallCall(calls[Len(calls)])
    /\ ~Took("check_ffmpeg") /\ ~Took("mkdir") /\ ~Took("launch")
    /\ (trace[Len(trace)] = "install_demucs") => ~Took("check_torch")
    /\ child = "none"
    /\ DirectoryUntouched

C6_Witness ==
  /\ pc = "raised" /\ installExit = 1
  /\ trace = <<"check_demucs", "install_demucs", "check_torch",
               "install_torch">>
  /\ Len(calls) = 2

\* C7: creating the output directory is idempotent: separate_song creates
\* separated_stems when it is missing and, when the directory is already
\* there, neither removes it nor changes what it holds nor reports an
\* error; once it exists it exists after every later run, with everything
\* earlier runs left in it.
C7_StepKeepsDirectory ==
  /\ stems = "dir" => (stems' = "dir" /\ contents \subseteq contents')
  /\ (pc = "mkdir" /\ pc' # "mkdir" /\ stems = "dir") =>
       (UNCHANGED <<stems, contents, out, exc>> /\ pc' = "launch")
  /\ (pc = "mkdir" /\ pc' # "mkdir" /\ stems = "absent") =>
       (stems' = "dir" /\ pc' = "launch")

C7_DirectoryAfterMkdir ==
  (Took("mkdir") /\ atCall.stems # "file") =>
    /\ stems = "dir"
    /\ pc # "raised"
    /\ atCall.stems = "dir" => atCall.contents \subseteq contents

C7_IdempotentDirectory ==
  [][C7_StepKeepsDirectory]_vars /\ []C7_DirectoryAfterMkdir

C7_Witness ==
  /\ runs = 2 /\ Took("mkdir") /\ pc = "returned" /\ status = 0
  /\ atCall.stems = "dir" /\ atCall.contents = { <<"old">>, <<"song.mp3">> }
  /\ contents = atCall.contents

\* C8 as stated: a call of main with an argument list whose number of
\* arguments after the program name is not exactly one prints the usage
\* message and returns 1 with no further action, also when the list is
\* empty.
C8_Original ==
  (InRun /\ argvGiven /\ Len(argvList) # 2) =>
    /\ pc = "returned" /\ status = 1
    /\ out = << Msg("usage") >>
    /\ calls = <<>> /\ trace = <<>>

\* C8 amended: main prints the usage message and returns 1 with no further
\* action exactly when the argument list it runs on has no argument after
\* the program name; that list is the one passed to main when it is not
\* empty and the process-wide list otherwise, so the outcome of a call with
\* an empty list is that of the process-wide list; arguments after the
\* first are ignored.
C8_UsageWhenNoArgument ==
  InRun =>
    /\ NoPathArgument <=> Printed("usage")
    /\ NoPathArgument =>
         /\ pc = "returned" /\ status = 1
         /\ out = << Msg("usage") >>
         /\ calls = <<>> /\ trace = <<>> /\ child = "none"
         /\ DirectoryUntouched
    /\ ~NoPathArgument => songPath = PathStr(UsedArgs[2])
    /\ (argvGiven /\ argvList = <<>>) => UsedArgs = sysArgv

C8_Witness ==
  /\ argvGiven /\ argvList = <<>> /\ sysArgv = <<Prog>>
  /\ pc = "returned" /\ status = 1 /\ out = << Msg("usage") >>

C8_WitnessFallback ==
  /\ argvGiven /\ argvList = <<>> /\ Len(sysArgv) = 2
  /\ pc = "returned" /\ status = 0

\* C9: the steps of a run come in one fixed order without repetition:
\* library check, library install only after a negative check, backend
\* check, backend install only after a negative check, decoder check,
\* directory creation, launch; each install and the launch happen at most
\* once, and the decoder check comes after both package steps.
CanonicalOrder ==
  <<"check_demucs">>
    \o (IF atCall.demucs THEN <<>> ELSE <<"install_demucs">>)
    \o <<"check_torch">>
    \o (IF atCall.torch THEN <<>> ELSE <<"install_torch">>)
    \o <<"check_ffmpeg", "mkdir", "launch">>

C9_FixedOrder ==
  /\ Len(trace) <= Len(CanonicalOrder)
  /\ trace = SubSeq(CanonicalOrder, 1, Len(trace))
  /\ Len(calls) <= 3
  /\ \A i, j \in 1..Len(calls) : i # j => calls[i] # calls[j]
  /\ \A i \in 1..Len(calls) :
       IsSeparationCall(calls[i]) => (i = Len(calls) /\ Took("launch"))
  /\ Cardinality({ i \in 1..Len(calls) : IsInstallCall(calls[i]) })
       = Cardinality({ i \in 1..Len(trace) :
                         trace[i] \in { "install_demucs", "install_torch" } })

C9_Witness ==
  /\ pc = "exited" /\ exc = "SystemExit(1)"
  /\ trace = <<"check_demucs", "install_demucs", "check_torch",
               "install_torch", "check_ffmpeg">>
  /\ Len(calls) = 2

\* C10: separate_song relays every line of the child's stream exactly once
\* and in the order written, printing a line before reading the next; it
\* waits for the child only after the stream has ended and reports only
\* after the wait, so no report precedes a relayed line; and once the child
\* has closed its stream and exited, separate_song returns.
C10_RelayInOrder ==
  /\ \A i \in 1..Len(Relayed) : Relayed[i].n = i
  /\ child # "none" =>
       Len(Relayed) + (IF pc = "print" THEN 1 ELSE 0) + Len(pipe) = produced
  /\ pc = "print" => line = Len(Relayed) + 1
  /\ pc \in { "wait", "report" } =>
       (pipeClosed /\ pipe = <<>> /\ Len(Relayed) = produced)
  /\ pc = "report" => child = "exited"
  /\ (Printed("done") \/ Printed("error")) =>
       /\ child = "exited"
       /\ returncode = childRc
       /\ Len(Relayed) = produced
       /\ out[Len(out)].kind \in { "done", "error" }

C10_ReturnsOnceChildIsGone ==
  (child = "exited") ~> (pc \in { "separated", "returned" })

C10_RelayThenWaitThenReport ==
  []C10_RelayInOrder /\ C10_ReturnsOnceChildIsGone

C10_Witness ==
  /\ pc = "returned" /\ produced = 2 /\ Len(Relayed) = 2
  /\ Printed("done")
  /\ out[Len(out) - 1] = LineMsg(2)
====
